---------------------------- MODULE Spec2Model ----------------------------
(***************************************************************************)
(* A model of src/renderer/backend/dashboard.ts: the dashboard page        *)
(* (category tallies and the recent-applications list) and the students    *)
(* page (roster table, filters and the detail modal).                      *)
(*                                                                         *)
(* Strings whose characters matter (names, the search query, the grade     *)
(* level rendered by Number.prototype.toString) are sequences of           *)
(* one-character strings.  Strings that the code only compares with ===    *)
(* (strand, semester, status, select values) are TLA+ strings.             *)
(***************************************************************************)
EXTENDS Integers, Sequences, FiniteSets, TLC

VARIABLES
    table,          \* the rows of the NewStudents table held by the Record Source
    \* ---- students page ----
    spc,            \* position of the students DOMContentLoaded handler
    rosterFetch,    \* outcome of fetchAllStudents: "none", "ok" or "error"
    allStudents,    \* the closure variable allStudents
    rows,           \* the <tr> children of #studentTableBody
    searchInput,    \* searchInput.value
    filterStrand,   \* filterStrand.value
    filterYear,     \* filterYear.value
    filterSemester, \* filterSemester.value
    modalHidden,    \* whether #studentModal carries the class "hidden"
    modalText,      \* textContent of modalName/Strand/Year/Semester/Status
    filtered,       \* history: filterTable has run at least once
    lastSelected,   \* history: index of the row whose VIEW button was clicked last
    \* ---- dashboard page ----
    dpc,            \* position of the dashboard DOMContentLoaded handler
    allFetch,       \* outcome of the query in fetchAndProcessAllStudents
    recentFetch,    \* outcome of the query in fetchRecentApplications
    tally,          \* the value fetchAndProcessAllStudents returned
    recentApplications, \* the value fetchRecentApplications returned
    statText,       \* textContent of the seven stat elements
    recentBody,     \* the rows of #recent-table-body
    \* ---- aggregation over arbitrary projected rows ----
    aggInput,       \* a sequence of {strand, enrollment_status} rows
    aggOutput       \* the tally computed from it, once Aggregate ran

studentVars == <<spc, rosterFetch, allStudents, rows, searchInput, filterStrand,
                 filterYear, filterSemester, modalHidden, modalText, filtered,
                 lastSelected>>
dashVars == <<dpc, allFetch, recentFetch, tally, recentApplications, statText,
              recentBody>>
aggVars == <<aggInput, aggOutput>>
vars == <<table, studentVars, dashVars, aggVars>>

---------------------------------------------------------------------------
(* Bounds of the model. *)
MaxRoster == 2
MaxRows == 6
MaxAgg == 2

---------------------------------------------------------------------------
(* JavaScript string and number primitives. *)

Uppers == <<"A","B","C","D","E","F","G","H","I","J","K","L","M",
            "N","O","P","Q","R","S","T","U","V","W","X","Y","Z">>
Lowers == <<"a","b","c","d","e","f","g","h","i","j","k","l","m",
            "n","o","p","q","r","s","t","u","v","w","x","y","z">>

\* the lower-case letter of every upper-case letter
LowerTable ==
    [c \in { Uppers[i] : i \in 1..Len(Uppers) } |->
        Lowers[CHOOSE i \in 1..Len(Uppers) : Uppers[i] = c]]

LowerChar(c) == IF c \in DOMAIN LowerTable THEN LowerTable[c] ELSE c

\* String.prototype.toLowerCase
ToLowerCase(s) == [i \in 1..Len(s) |-> LowerChar(s[i])]

\* String.prototype.includes
Includes(s, t) ==
    \E k \in 0..Len(s) :
        /\ k + Len(t) <= Len(s)
        /\ SubSeq(s, k + 1, k + Len(t)) = t

Digits == <<"0","1","2","3","4","5","6","7","8","9">>

RECURSIVE NumberToString(_)
\* Number.prototype.toString on a non-negative integer
NumberToString(n) ==
    IF n < 10 THEN <<Digits[n + 1]>>
    ELSE NumberToString(n \div 10) \o <<Digits[(n % 10) + 1]>>

Null == "<null>"

\* `${value}` inside a template literal, for a string field that may be null
Interpolate(v) == IF v = Null THEN "null" ELSE v

---------------------------------------------------------------------------
(* The Record Source. *)

Student(fn, ln, st, gl, sem, es) ==
    [fname |-> fn, lname |-> ln, strand |-> st, gradeLevel |-> gl,
     semester |-> sem, enrollment_status |-> es]

RosterPool ==
    { Student(<<"J","a","n","e">>, <<"D","o","e">>, "STEM", 11, "1st", "Pending"),
      Student(<<"A","n","a">>, <<"C","r","u","z">>, "ABM", 12, "2nd", "Enrolled"),
      Student(<<"D","a","n">>, <<"C","r","u","z">>, "STEM", 12, "1ST", "Rejected") }

SeqsUpTo(S, n) == UNION { [1..k -> S] : k \in 0..n }

---------------------------------------------------------------------------
(* The students page. *)

All == "all"
YearAll == <<"a","l","l">>

Queries == { <<>>, <<"A","n">>, <<"e"," ","D">>, <<"c","r","u","z">>, <<"x">> }
StrandOptions == { All, "STEM", "ABM" }
YearOptions == { YearAll, <<"1","1">>, <<"1","2">> }
SemesterOptions == { All, "1st", "2nd" }

StatusClass(status) ==
    IF status = "Pending" THEN "bg-yellow-100 text-yellow-800"
    ELSE IF status = "Enrolled" THEN "bg-green-100 text-green-800"
    ELSE "bg-red-100 text-red-800"

\* one <tr> built by populateTable
StudentRow(student, index) ==
    [ className |-> IF index % 2 = 0 THEN "bg-white" ELSE "bg-gray-50",
      dataset |-> [ name |-> student.fname \o <<" ">> \o student.lname,
                    strand |-> student.strand,
                    year |-> NumberToString(student.gradeLevel),
                    semester |-> student.semester,
                    status |-> student.enrollment_status ],
      statusClass |-> StatusClass(student.enrollment_status),
      viewBtn |-> TRUE,
      display |-> "" ]

\* populateTable: the table body's rows after it ran (index is zero-based)
PopulateTable(students) ==
    [i \in 1..Len(students) |-> StudentRow(students[i], i - 1)]

\* the single row the catch block writes into the table body
ErrorRow ==
    [ className |-> "",
      dataset |-> [x \in {} |-> x],
      statusClass |-> "text-red-500",
      viewBtn |-> FALSE,
      display |-> "" ]

\* row.dataset.key ?? dflt
DataOr(row, key, dflt) ==
    IF key \in DOMAIN row.dataset THEN row.dataset[key] ELSE dflt

\* Variant of RowMatches: the search term is compared as typed, not lower-cased.
RowMatchesCaseSensitive(row, search, strand, year, semester) ==
    LET name == ToLowerCase(DataOr(row, "name", <<>>))
        rowStrand == DataOr(row, "strand", "")
        rowYear == DataOr(row, "year", <<>>)
        rowSemester == DataOr(row, "semester", "")
    IN  /\ Includes(name, search)
        /\ strand = All \/ rowStrand = strand
        /\ year = YearAll \/ rowYear = year
        /\ semester = All \/ rowSemester = semester

\* the body of filterTable's loop: whether the row matches the four controls
RowMatches(row, search, strand, year, semester) ==
    LET searchTerm == ToLowerCase(search)
        name == ToLowerCase(DataOr(row, "name", <<>>))
        rowStrand == DataOr(row, "strand", "")
        rowYear == DataOr(row, "year", <<>>)
        rowSemester == DataOr(row, "semester", "")
        nameMatch == Includes(name, searchTerm)
        strandMatch == strand = All \/ rowStrand = strand
        yearMatch == year = YearAll \/ rowYear = year
        semesterMatch == semester = All \/ rowSemester = semester
    IN  nameMatch /\ strandMatch /\ yearMatch /\ semesterMatch

\* the style.display filterTable assigns to one row
FilteredDisplay(row, search, strand, year, semester) ==
    IF RowMatches(row, search, strand, year, semester) THEN "" ELSE "none"

\* Variant of FilterTable: a matching row keeps the display it had, so a row
\* once hidden is never shown again.
FilterTableHideOnly(rs, search, strand, year, semester) ==
    [i \in 1..Len(rs) |->
        IF RowMatches(rs[i], search, strand, year, semester)
        THEN rs[i]
        ELSE [rs[i] EXCEPT !.display = "none"]]

\* Variant of FilterTable: the rows that do not match are removed from the
\* table body instead of being hidden.
FilterTableRemoving(rs, search, strand, year, semester) ==
    LET Keep(row) == RowMatches(row, search, strand, year, semester)
    IN  SelectSeq(rs, Keep)

\* filterTable: the rows after it ran with the given control values
FilterTable(rs, search, strand, year, semester) ==
    [i \in 1..Len(rs) |->
        [rs[i] EXCEPT !.display = FilteredDisplay(rs[i], search, strand, year, semester)]]

\* Variant of ModalTextOf: the status node is not written and keeps its text.
ModalTextOfKeepingStatus(row) ==
    [ name |-> DataOr(row, "name", <<"N","/","A">>),
      strand |-> DataOr(row, "strand", "N/A"),
      year |-> DataOr(row, "year", <<"N","/","A">>),
      semester |-> DataOr(row, "semester", "N/A"),
      status |-> modalText.status ]

\* openStudentModal: the five text nodes after it ran on the row
ModalTextOf(row) ==
    [ name |-> DataOr(row, "name", <<"N","/","A">>),
      strand |-> DataOr(row, "strand", "N/A"),
      year |-> DataOr(row, "year", <<"N","/","A">>),
      semester |-> DataOr(row, "semester", "N/A"),
      status |-> DataOr(row, "status", "N/A") ]

\* the page's markup gives the modal the class "hidden"
InitialModalHidden == TRUE

\* the modal's text nodes as the page's markup leaves them
InitialModalText ==
    [ name |-> <<>>, strand |-> "", year |-> <<>>, semester |-> "", status |-> "" ]

StudentsInit ==
    /\ spc = "start"
    /\ rosterFetch = "none"
    /\ allStudents = <<>>
    /\ rows = <<>>
    /\ searchInput = <<>>
    /\ filterStrand = All
    /\ filterYear = YearAll
    /\ filterSemester = All
    /\ modalHidden = InitialModalHidden
    /\ modalText = InitialModalText
    /\ filtered = FALSE
    /\ lastSelected = 0

\* lines 189-206: the handler looks its elements up; with an essential one
\* missing it returns, otherwise it goes on to await fetchAllStudents
StudentsStart ==
    /\ spc = "start"
    /\ \E essential \in BOOLEAN :
          spc' = IF essential THEN "fetching" ELSE "aborted"
    /\ UNCHANGED <<table, rosterFetch, allStudents, rows, searchInput, filterStrand,
                   filterYear, filterSemester, modalHidden, modalText, filtered,
                   lastSelected>>

\* the user changes one control while the fetch is pending: no listener is
\* attached yet, so the control takes the value and filterTable does not run
InputBeforeListeners ==
    /\ spc = "fetching"
    /\ \/ \E q \in Queries :
             searchInput' = q /\ UNCHANGED <<filterStrand, filterYear, filterSemester>>
       \/ \E s \in StrandOptions :
             filterStrand' = s /\ UNCHANGED <<searchInput, filterYear, filterSemester>>
       \/ \E y \in YearOptions :
             filterYear' = y /\ UNCHANGED <<searchInput, filterStrand, filterSemester>>
       \/ \E m \in SemesterOptions :
             filterSemester' = m /\ UNCHANGED <<searchInput, filterStrand, filterYear>>
    /\ UNCHANGED <<table, spc, rosterFetch, allStudents, rows, modalHidden, modalText,
                   filtered, lastSelected>>

\* lines 321-323 and 333-361: the fetch resolves with data, the table is
\* populated and the listeners are attached
StudentsLoaded ==
    /\ spc = "fetching"
    /\ rosterFetch' = "ok"
    /\ allStudents' = table
    /\ rows' = PopulateTable(table)
    /\ spc' = "ready"
    /\ UNCHANGED <<table, searchInput, filterStrand, filterYear, filterSemester,
                   modalHidden, modalText, filtered, lastSelected>>

\* lines 324-328 and 333-361: the fetch fails, the catch block writes the
\* error row and the listeners are attached
StudentsLoadFailed ==
    /\ spc = "fetching"
    /\ rosterFetch' = "error"
    /\ rows' = <<ErrorRow>>
    /\ spc' = "ready"
    /\ UNCHANGED <<table, allStudents, searchInput, filterStrand, filterYear,
                   filterSemester, modalHidden, modalText, filtered, lastSelected>>

\* what every filter listener does after the control took its new value
RunFilterTable ==
    /\ filtered' = TRUE
    /\ UNCHANGED <<table, spc, rosterFetch, allStudents, modalHidden, modalText,
                   lastSelected>>
    /\ rows' = FilterTable(rows, searchInput', filterStrand', filterYear', filterSemester')

SearchInputEvent ==
    /\ spc = "ready"
    /\ \E q \in Queries : searchInput' = q
    /\ UNCHANGED <<filterStrand, filterYear, filterSemester>>
    /\ RunFilterTable

StrandChangeEvent ==
    /\ spc = "ready"
    /\ \E s \in StrandOptions : filterStrand' = s
    /\ UNCHANGED <<searchInput, filterYear, filterSemester>>
    /\ RunFilterTable

YearChangeEvent ==
    /\ spc = "ready"
    /\ \E y \in YearOptions : filterYear' = y
    /\ UNCHANGED <<searchInput, filterStrand, filterSemester>>
    /\ RunFilterTable

SemesterChangeEvent ==
    /\ spc = "ready"
    /\ \E m \in SemesterOptions : filterSemester' = m
    /\ UNCHANGED <<searchInput, filterStrand, filterYear>>
    /\ RunFilterTable

FilterEvent ==
    SearchInputEvent \/ StrandChangeEvent \/ YearChangeEvent \/ SemesterChangeEvent

\* openStudentModal(row)
OpenStudentModal(i) ==
    /\ modalText' = ModalTextOf(rows[i])
    /\ modalHidden' = FALSE
    /\ lastSelected' = i

\* the table body's click listener, the click landing on row i; onButton
\* tells whether target.closest('.view-btn') finds the row's VIEW button
TableClick(i, onButton) ==
    /\ spc = "ready"
    /\ i \in 1..Len(rows)
    /\ IF onButton /\ rows[i].viewBtn
       THEN OpenStudentModal(i)
       ELSE UNCHANGED <<modalText, modalHidden, lastSelected>>
    /\ UNCHANGED <<table, spc, rosterFetch, allStudents, rows, searchInput,
                   filterStrand, filterYear, filterSemester, filtered>>

ViewClick == \E i \in 1..Len(rows) : TableClick(i, TRUE)

RowClick == \E i \in 1..Len(rows) : TableClick(i, FALSE)

\* the close button's click listener
CloseClick ==
    /\ spc = "ready"
    /\ modalHidden' = TRUE
    /\ UNCHANGED <<table, spc, rosterFetch, allStudents, rows, searchInput,
                   filterStrand, filterYear, filterSemester, modalText, filtered,
                   lastSelected>>

\* Variant of ModalClick: the listener hides the modal without looking at
\* event.target.
ModalClickAnyTarget(onBackdrop) ==
    /\ spc = "ready"
    /\ modalHidden' = TRUE
    /\ UNCHANGED <<table, spc, rosterFetch, allStudents, rows, searchInput,
                   filterStrand, filterYear, filterSemester, modalText, filtered,
                   lastSelected>>

\* the modal's click listener; onBackdrop tells whether event.target is the
\* modal element itself
ModalClick(onBackdrop) ==
    /\ spc = "ready"
    /\ modalHidden' = IF onBackdrop THEN TRUE ELSE modalHidden
    /\ UNCHANGED <<table, spc, rosterFetch, allStudents, rows, searchInput,
                   filterStrand, filterYear, filterSemester, modalText, filtered,
                   lastSelected>>

BackdropClick == ModalClick(TRUE)

InsideModalClick == ModalClick(FALSE)

---------------------------------------------------------------------------
(* The dashboard page: fetchAndProcessAllStudents. *)

StrandKeys == { "STEM", "ABM", "TVL-ICT", "HUMSS" }
StatusKeys == { "Pending", "Enrolled", "Rejected" }

\* data properties every object literal inherits from Object.prototype
ObjectPrototypeKeys == { "toString", "constructor" }

\* An object literal whose own properties hold numbers: num maps each own
\* property holding a number to it, nan is the set of own properties holding NaN.
NewCounts(keys) == [ num |-> [k \in keys |-> 0], nan |-> {} ]

\* counts[key] !== undefined
HasProperty(counts, key) ==
    \/ key \in DOMAIN counts.num
    \/ key \in counts.nan
    \/ key \in ObjectPrototypeKeys

\* counts[key]++ : a number is incremented; an inherited function, or NaN,
\* is converted to a number and leaves the own property NaN
Increment(counts, key) ==
    IF key \in DOMAIN counts.num
    THEN [counts EXCEPT !.num[key] = @ + 1]
    ELSE [counts EXCEPT !.nan = @ \cup {key}]

\* the truthiness test of a string-or-null value
Truthy(v) == v # Null /\ v # ""

\* if (value && counts[value] !== undefined) counts[value]++
CountOne(counts, v) ==
    IF Truthy(v) /\ HasProperty(counts, v) THEN Increment(counts, v) ELSE counts

RECURSIVE ForEachStudentStrandTwice(_, _, _)
\* Variant of ForEachStudent: the status counter is looked up by the strand.
ForEachStudentStrandTwice(students, i, acc) ==
    IF i > Len(students) THEN acc
    ELSE ForEachStudentStrandTwice(students, i + 1,
            [ strandCounts |-> CountOne(acc.strandCounts, students[i].strand),
              statusCounts |-> CountOne(acc.statusCounts, students[i].strand) ])

RECURSIVE ForEachStudent(_, _, _)
\* students.forEach(...) from element i on, acc holding both count objects
ForEachStudent(students, i, acc) ==
    IF i > Len(students) THEN acc
    ELSE ForEachStudent(students, i + 1,
            [ strandCounts |-> CountOne(acc.strandCounts, students[i].strand),
              statusCounts |-> CountOne(acc.statusCounts, students[i].enrollment_status) ])

\* what fetchAndProcessAllStudents returns for the rows the query gave
ProcessAllStudents(students) ==
    ForEachStudent(students, 1,
        [ strandCounts |-> NewCounts(StrandKeys), statusCounts |-> NewCounts(StatusKeys) ])

\* .select('strand, enrollment_status')
SelectStrandStatus(tbl) ==
    [i \in 1..Len(tbl) |->
        [strand |-> tbl[i].strand, enrollment_status |-> tbl[i].enrollment_status]]

---------------------------------------------------------------------------
(* The dashboard page: fetchRecentApplications. *)

RecentLimit == 5

\* the place of every letter in the order of the text comparison
RankTable ==
    [c \in { Uppers[i] : i \in 1..Len(Uppers) } \cup { Lowers[i] : i \in 1..Len(Lowers) } |->
        IF \E i \in 1..Len(Uppers) : Uppers[i] = c
        THEN CHOOSE i \in 1..Len(Uppers) : Uppers[i] = c
        ELSE Len(Uppers) + (CHOOSE i \in 1..Len(Lowers) : Lowers[i] = c)]

CharRank(c) == IF c \in DOMAIN RankTable THEN RankTable[c] ELSE 0

RECURSIVE TextLess(_, _)
\* the Record Source's order on text: a sorts before b
TextLess(a, b) ==
    IF b = <<>> THEN FALSE
    ELSE IF a = <<>> THEN TRUE
    ELSE IF CharRank(Head(a)) # CharRank(Head(b)) THEN CharRank(Head(a)) < CharRank(Head(b))
    ELSE TextLess(Tail(a), Tail(b))

\* whether row i may come first among the rows S under .order('lname', {ascending: false})
ComesFirst(tbl, S, i) == \A j \in S : ~TextLess(tbl[i].lname, tbl[j].lname)

RECURSIVE OrderLimit(_, _, _)
\* .order('lname', {ascending: false}).limit(k) over the rows with indices S:
\* every result the Record Source may give (rows with equal lname come in any order)
OrderLimit(tbl, S, k) ==
    IF S = {} \/ k = 0 THEN { <<>> }
    ELSE LET first == { tbl[i] : i \in { j \in S : ComesFirst(tbl, S, j) } }
             Pick(r) == CHOOSE i \in S : tbl[i] = r /\ \A j \in S : tbl[j] = r => i <= j
         IN  UNION { { <<r>> \o rest : rest \in OrderLimit(tbl, S \ {Pick(r)}, k - 1) }
                     : r \in first }

\* Variant of RecentQuery: the query carries no .order(...), the rows come
\* as the table holds them.
RecentQueryUnordered(tbl) ==
    { SubSeq(tbl, 1, IF Len(tbl) < RecentLimit THEN Len(tbl) ELSE RecentLimit) }

\* the results the query of fetchRecentApplications may give
RecentQuery(tbl) == OrderLimit(tbl, 1..Len(tbl), RecentLimit)

\* generateTableRow
GenerateTableRow(student) ==
    [ name |-> student.fname \o <<" ">> \o student.lname,
      strand |-> Interpolate(student.strand),
      gradeLevel |-> NumberToString(student.gradeLevel),
      semester |-> student.semester,
      statusClass |-> StatusClass(student.enrollment_status),
      status |-> Interpolate(student.enrollment_status) ]

---------------------------------------------------------------------------
(* The dashboard page: the DOMContentLoaded handler. *)

None == [set |-> FALSE]
Some(v) == [set |-> TRUE, value |-> v]

StatSelectors == { "stemCount", "abmCount", "tvlCount", "humssCount",
                   "pendingCount", "enrolledCount", "rejectedCount" }

\* the stat elements and the recent table body as the page's markup leaves them
InitialStatText == [s \in StatSelectors |-> <<>>]
InitialRecentBody == <<>>

\* lines 153-161: the seven updateElementText calls
RenderedStatText(t) ==
    [s \in StatSelectors |->
        CASE s = "stemCount" -> NumberToString(t.strandCounts.num["STEM"])
          [] s = "abmCount" -> NumberToString(t.strandCounts.num["ABM"])
          [] s = "tvlCount" -> NumberToString(t.strandCounts.num["TVL-ICT"])
          [] s = "humssCount" -> NumberToString(t.strandCounts.num["HUMSS"])
          [] s = "pendingCount" -> NumberToString(t.statusCounts.num["Pending"])
          [] s = "enrolledCount" -> NumberToString(t.statusCounts.num["Enrolled"])
          [] s = "rejectedCount" -> NumberToString(t.statusCounts.num["Rejected"])]

\* lines 164-167: recentApplications.map(generateTableRow)
RenderedRecentBody(recent) == [i \in 1..Len(recent) |-> GenerateTableRow(recent[i])]

DashPool ==
    { Student(<<"J","a","n","e">>, <<"D","o","e">>, "STEM", 11, "1st", "Pending"),
      Student(<<"A","n","a">>, <<"C","r","u","z">>, "ABM", 12, "2nd", "Enrolled"),
      Student(<<"D","a","n">>, <<"C","r","u","z">>, "GAS", 12, "1st", Null),
      Student(<<"B","e","n">>, <<"D","o">>, "TVL-ICT", 11, "2nd", "Rejected") }

DashInit ==
    /\ dpc = "awaitAll"
    /\ allFetch = "none"
    /\ recentFetch = "none"
    /\ tally = None
    /\ recentApplications = None
    /\ statText = InitialStatText
    /\ recentBody = InitialRecentBody

\* line 147: the first query resolves with data and the counts are computed
DashAllResolved ==
    /\ dpc = "awaitAll"
    /\ allFetch' = "ok"
    /\ tally' = Some(ProcessAllStudents(SelectStrandStatus(table)))
    /\ dpc' = "awaitRecent"
    /\ UNCHANGED <<table, recentFetch, recentApplications, statText, recentBody>>

\* lines 44-46 and 168-170: the first query fails, the throw reaches the catch
DashAllFailed ==
    /\ dpc = "awaitAll"
    /\ allFetch' = "error"
    /\ dpc' = "done"
    /\ UNCHANGED <<table, recentFetch, tally, recentApplications, statText, recentBody>>

\* lines 150-167: the second query resolves with data and everything is rendered
DashRecentResolved ==
    /\ dpc = "awaitRecent"
    /\ recentFetch' = "ok"
    /\ \E data \in RecentQuery(table) :
          /\ recentApplications' = Some(data)
          /\ recentBody' = RenderedRecentBody(data)
    /\ statText' = RenderedStatText(tally.value)
    /\ dpc' = "done"
    /\ UNCHANGED <<table, allFetch, tally>>

\* lines 89-92 and 168-170: the second query fails, the throw reaches the catch
DashRecentFailed ==
    /\ dpc = "awaitRecent"
    /\ recentFetch' = "error"
    /\ dpc' = "done"
    /\ UNCHANGED <<table, allFetch, tally, recentApplications, statText, recentBody>>

---------------------------------------------------------------------------
(* Aggregation over arbitrary projected rows. *)

AggStrands == StrandKeys \cup { Null, "", "GAS", "toString" }
AggStatuses == StatusKeys \cup { Null, "Dropped", "constructor" }
AggRows == [ strand : AggStrands, enrollment_status : AggStatuses ]

AggInit ==
    /\ aggInput \in SeqsUpTo(AggRows, MaxAgg)
    /\ aggOutput = None

Aggregate ==
    /\ ~aggOutput.set
    /\ aggOutput' = Some(ProcessAllStudents(aggInput))
    /\ UNCHANGED aggInput

---------------------------------------------------------------------------
(* Specifications: one per page, and one for the aggregation alone. *)

StudentsIdle ==
    /\ spc = "idle"
    /\ rosterFetch = "none"
    /\ allStudents = <<>>
    /\ rows = <<>>
    /\ searchInput = <<>>
    /\ filterStrand = All
    /\ filterYear = YearAll
    /\ filterSemester = All
    /\ modalHidden = InitialModalHidden
    /\ modalText = InitialModalText
    /\ filtered = FALSE
    /\ lastSelected = 0

DashIdle ==
    /\ dpc = "idle"
    /\ allFetch = "none"
    /\ recentFetch = "none"
    /\ tally = None
    /\ recentApplications = None
    /\ statText = InitialStatText
    /\ recentBody = InitialRecentBody

AggIdle ==
    /\ aggInput = <<>>
    /\ aggOutput = None

OnStudentsPage(A) == A /\ UNCHANGED <<dashVars, aggVars>>

OnDashboardPage(A) == A /\ UNCHANGED <<studentVars, aggVars>>

InitStudents ==
    /\ table \in SeqsUpTo(RosterPool, MaxRoster)
    /\ StudentsInit
    /\ DashIdle
    /\ AggIdle

NextStudents ==
    \/ OnStudentsPage(StudentsStart)
    \/ OnStudentsPage(InputBeforeListeners)
    \/ OnStudentsPage(StudentsLoaded)
    \/ OnStudentsPage(StudentsLoadFailed)
    \/ OnStudentsPage(SearchInputEvent)
    \/ OnStudentsPage(StrandChangeEvent)
    \/ OnStudentsPage(YearChangeEvent)
    \/ OnStudentsPage(SemesterChangeEvent)
    \/ OnStudentsPage(ViewClick)
    \/ OnStudentsPage(RowClick)
    \/ OnStudentsPage(CloseClick)
    \/ OnStudentsPage(BackdropClick)
    \/ OnStudentsPage(InsideModalClick)

SpecStudents == InitStudents /\ [][NextStudents]_vars

InitDashboard ==
    /\ table \in SeqsUpTo(DashPool, MaxRows)
    /\ DashInit
    /\ StudentsIdle
    /\ AggIdle

NextDashboard ==
    \/ OnDashboardPage(DashAllResolved)
    \/ OnDashboardPage(DashAllFailed)
    \/ OnDashboardPage(DashRecentResolved)
    \/ OnDashboardPage(DashRecentFailed)

SpecDashboard == InitDashboard /\ [][NextDashboard]_vars

InitAggregate ==
    /\ table = <<>>
    /\ AggInit
    /\ StudentsIdle
    /\ DashIdle

NextAggregate ==
    Aggregate /\ UNCHANGED <<table, studentVars, dashVars>>

SpecAggregate == InitAggregate /\ [][NextAggregate]_vars

---------------------------------------------------------------------------
(* Notions the properties below are stated in. *)

DisplayName(rec) == rec.fname \o <<" ">> \o rec.lname

\* the four visibility conditions, over a record as loaded and a FilterState
SpecVisible(rec, query, track, level, term) ==
    /\ query = <<>> \/ Includes(ToLowerCase(DisplayName(rec)), ToLowerCase(query))
    /\ track = All \/ track = rec.strand
    /\ level = YearAll \/ level = NumberToString(rec.gradeLevel)
    /\ term = All \/ term = rec.semester

Visible(i) == rows[i].display = ""

FilterIsEmpty ==
    /\ searchInput = <<>>
    /\ filterStrand = All
    /\ filterYear = YearAll
    /\ filterSemester = All

RosterLoaded == spc = "ready" /\ rosterFetch = "ok"

\* the detail view of a record as loaded
Project(rec) ==
    [ name |-> DisplayName(rec),
      strand |-> rec.strand,
      year |-> NumberToString(rec.gradeLevel),
      semester |-> rec.semester,
      status |-> rec.enrollment_status ]

\* the rows' data, leaving out what a filter may change
Datasets(rs) == [i \in 1..Len(rs) |-> rs[i].dataset]
Displays(rs) == [i \in 1..Len(rs) |-> rs[i].display]

Occurrences(sq, x) == Cardinality({ i \in 1..Len(sq) : sq[i] = x })

RECURSIVE SumOver(_, _)
SumOver(f, keys) ==
    IF keys = {} THEN 0
    ELSE LET k == CHOOSE x \in keys : TRUE IN f[k] + SumOver(f, keys \ {k})

Min(a, b) == IF a <= b THEN a ELSE b

---------------------------------------------------------------------------
(* C1: once filterTable has run on a loaded roster, a record's row is      *)
(* visible exactly when the query is empty or contained (both lower-cased) *)
(* in "fname lname", and each of strand, year and semester is "all" or     *)
(* equal to the record's value (the year as its decimal string).           *)
C1_VisibleIffAllFourHold ==
    (RosterLoaded /\ filtered) =>
        /\ Len(rows) = Len(allStudents)
        /\ \A i \in 1..Len(allStudents) :
              Visible(i) <=> SpecVisible(allStudents[i], searchInput, filterStrand,
                                         filterYear, filterSemester)

C1_Witness ==
    /\ RosterLoaded /\ filtered
    /\ searchInput = <<"e"," ","D">>
    /\ filterStrand = "STEM"
    /\ \E i, j \in 1..Len(rows) : Visible(i) /\ ~Visible(j)

(* C2: the tally fetchAndProcessAllStudents computes has all four strand   *)
(* keys and all three status keys, each holding the number of rows with    *)
(* exactly that value; the strand counts sum to at most the number of rows,*)
(* with equality exactly when every row has a recognized strand, and the   *)
(* same for the status counts.                                             *)
C2_TallyCountsRecognizedValues ==
    aggOutput.set =>
        LET sc == aggOutput.value.strandCounts.num
            ec == aggOutput.value.statusCounts.num
            n == Len(aggInput)
        IN  /\ DOMAIN sc = StrandKeys
            /\ DOMAIN ec = StatusKeys
            /\ \A k \in StrandKeys :
                  sc[k] = Cardinality({ i \in 1..n : aggInput[i].strand = k })
            /\ \A k \in StatusKeys :
                  ec[k] = Cardinality({ i \in 1..n : aggInput[i].enrollment_status = k })
            /\ SumOver(sc, StrandKeys) <= n
            /\ SumOver(sc, StrandKeys) = n
                  <=> \A i \in 1..n : aggInput[i].strand \in StrandKeys
            /\ SumOver(ec, StatusKeys) <= n
            /\ SumOver(ec, StatusKeys) = n
                  <=> \A i \in 1..n : aggInput[i].enrollment_status \in StatusKeys

C2_Witness ==
    /\ aggOutput.set
    /\ Len(aggInput) = 2
    /\ aggInput[1].strand = "STEM" /\ aggInput[1].enrollment_status = Null
    /\ aggInput[2].strand = "toString" /\ aggInput[2].enrollment_status = "Enrolled"
    /\ aggOutput.value.strandCounts.num["STEM"] = 1
    /\ aggOutput.value.statusCounts.num["Enrolled"] = 1

(* C3: each section whose own fetch succeeded is rendered with its data    *)
(* once loading has finished, whatever happened to the other fetches.      *)
C3_SectionsRenderIndependently ==
    /\ (dpc = "done" /\ allFetch = "ok") => statText = RenderedStatText(tally.value)
    /\ (dpc = "done" /\ recentFetch = "ok") =>
          recentBody = RenderedRecentBody(recentApplications.value)
    /\ (spc = "ready" /\ rosterFetch = "ok") =>
          Datasets(rows) = Datasets(PopulateTable(allStudents))

(* C4: once loading has finished, a section whose fetch failed shows an    *)
(* error indication: it is not left as the markup had it.                  *)
C4_FailedSectionShowsError ==
    /\ (dpc = "done" /\ allFetch = "error") => statText # InitialStatText
    /\ (dpc = "done" /\ recentFetch = "error") => recentBody # InitialRecentBody
    /\ (spc = "ready" /\ rosterFetch = "error") => Datasets(rows) = <<ErrorRow.dataset>>

(* C5: the modal starts hidden; a click on a row's VIEW button shows it,   *)
(* the close button and a click on the backdrop hide it, and filter events,*)
(* clicks inside the modal and clicks on a row outside its VIEW button     *)
(* leave it as it is.                                                      *)
C5_Selection == \E i \in 1..Len(rows) : rows[i].viewBtn /\ TableClick(i, TRUE)

C5_DetailStateMachine ==
    /\ modalHidden = TRUE
    /\ [][ /\ modalHidden \in BOOLEAN
           \* a step that leaves the modal hidden is no selection
           /\ modalHidden' => ~C5_Selection
           \* a step that leaves the modal shown is no dismissal
           /\ ~modalHidden' => ~(CloseClick \/ BackdropClick)
           \* a step that shows or hides the modal is none of the other events
           /\ modalHidden' # modalHidden => ~(FilterEvent \/ InsideModalClick \/ RowClick)
         ]_vars

C5_Witness ==
    /\ spc = "ready"
    /\ modalHidden
    /\ lastSelected # 0
    /\ filtered

(* C6: the rows fetchRecentApplications returns are at most                *)
(* min(5, number of rows), all drawn from the table, in descending order   *)
(* of lname, and all of the table's rows when it has fewer than 5.         *)
C6_RecentIsSortedBoundedSlice ==
    recentApplications.set =>
        LET r == recentApplications.value
        IN  /\ Len(r) <= Min(RecentLimit, Len(table))
            /\ \A i \in 1..Len(r) : Occurrences(r, r[i]) <= Occurrences(table, r[i])
            /\ \A i, j \in 1..Len(r) : i < j => ~TextLess(r[i].lname, r[j].lname)
            /\ Len(table) < RecentLimit =>
                  /\ Len(r) = Len(table)
                  /\ \A i \in 1..Len(table) :
                        Occurrences(r, table[i]) = Occurrences(table, table[i])

C6_Witness ==
    /\ recentApplications.set
    /\ Len(table) > RecentLimit
    /\ Len(recentApplications.value) = RecentLimit
    /\ recentApplications.value[1].lname = <<"D","o","e">>
    /\ recentApplications.value[RecentLimit].lname = <<"C","r","u","z">>
    /\ table[1].lname = <<"C","r","u","z">>

(* C7: whenever the modal is shown, its five text nodes are the display    *)
(* name, strand, grade level in decimal, semester and status of the record *)
(* selected last.                                                          *)
C7_DetailShowsLastSelected ==
    ~modalHidden =>
        /\ lastSelected \in 1..Len(allStudents)
        /\ modalText = Project(allStudents[lastSelected])

C7_Witness ==
    /\ ~modalHidden
    /\ lastSelected = 2
    /\ allStudents[1] # allStudents[2]
    /\ modalText.name = <<"A","n","a"," ","C","r","u","z">>
    /\ modalText.year = <<"1","2">>
    /\ modalText.status = "Enrolled"

C9_EventsKeepWorkingSet ==
    [][ spc = "ready" =>
          /\ allStudents' = allStudents
          /\ Datasets(rows') = Datasets(rows)
          \* a step that changes a row's visibility is no click
          /\ Displays(rows') # Displays(rows) =>
                ~(ViewClick \/ RowClick \/ CloseClick \/ BackdropClick \/ InsideModalClick)
          \* a step that changes the modal is no filter event
          /\ (modalText' # modalText \/ modalHidden' # modalHidden) => ~FilterEvent
      ]_vars

C9_Witness ==
    /\ RosterLoaded /\ filtered
    /\ ~modalHidden
    /\ Len(rows) >= 2
    /\ \E i \in 1..Len(rows) : ~Visible(i)
    /\ Datasets(rows) = Datasets(PopulateTable(table))

(* C10: after a failed roster fetch the error row stays displayed.         *)
C10_ErrorRowStaysVisible ==
    (spc = "ready" /\ rosterFetch = "error") =>
        \E i \in 1..Len(rows) : rows[i].dataset = ErrorRow.dataset /\ Visible(i)

=============================================================================
